---- MODULE Spec2Model ----
(***************************************************************************)
(* The GitHub push-webhook pipeline of crax.app: signature verification,   *)
(* the two webhook orchestrators (backend/app.py and backend/main.py), and *)
(* the Supabase tables they read and write.  Every collaborator call       *)
(* (store query, store insert, store update, text generation) is one       *)
(* atomic step of a request, so that requests interleave between calls.    *)
(***************************************************************************)
EXTENDS Integers, Sequences, FiniteSets, TLC

VARIABLES
    secret,     \* GITHUB_WEBHOOK_SECRET, read from the environment at import
    profiles,   \* table "profiles": set of [github_url, id]
    commits,    \* table "commits": sequence of rows, a row's id is its index
    posts,      \* table "posts": sequence of rows, a row's id is its index
    req,        \* per request: the locals of github_webhook and its position
    calls,      \* per request: the collaborator calls made so far, in order
    api_key,    \* ANTHROPIC_API_KEY, read from the environment at each call
    probe,      \* inputs of one direct call of a function of the program
    verdict     \* its progress and its outcome

vars == <<secret, api_key, profiles, commits, posts, req, calls, probe, verdict>>

(***************************************************************************)
(* Bounds                                                                  *)
(***************************************************************************)
\* the largest number of commits in one push payload
MaxCommits == 2

\* the requests in flight; they may interleave at every collaborator call
Reqs == {"r1", "r2"}

(***************************************************************************)
(* Python values                                                           *)
(***************************************************************************)
\* A str is a sequence of tokens; an optional str carries its presence.
\* `not x` is true of None and of the empty string.
None == [present |-> FALSE, text |-> <<>>]
Str(text) == [present |-> TRUE, text |-> text]
Falsy(s) == ~s.present \/ s.text = <<>>

\* a character outside ASCII (a header byte >= 0x80, decoded as latin-1)
NonAsciiChar == "\\xe9"
IsAscii(text) == \A i \in 1..Len(text) : text[i] # NonAsciiChar

(***************************************************************************)
(* Signature Verifier                                                      *)
(***************************************************************************)
\* hmac.new(key, msg, sha256).hexdigest(): an ideal keyed hash, one digest
\* per (key, msg) pair.
HexDigest(key, msg) == <<"hmac", key, msg>>

\* variant: the expected signature built without its "sha256=" prefix
ExpectedSignatureNoPrefix(key, msg) == HexDigest(key, msg)

\* f"sha256={hash_object.hexdigest()}"
ExpectedSignature(key, msg) == <<"sha256=">> \o HexDigest(key, msg)

\* hmac.compare_digest(a, b) on two str: TypeError unless both are ASCII.
CompareDigest(a, b) ==
    IF ~(IsAscii(a) /\ IsAscii(b)) THEN "TypeError"
    ELSE IF a = b THEN "True" ELSE "False"

\* verify_github_signature(payload_body, signature_header, webhook_secret):
\* "True", "False", or the exception raised.  The secret "" stands for an
\* unset or empty secret.
verify_github_signature(payload_body, signature_header, webhook_secret) ==
    IF webhook_secret = "" THEN "ValueError"
    ELSE IF Falsy(signature_header) THEN "False"
    ELSE CompareDigest(ExpectedSignature(webhook_secret, payload_body),
                       signature_header.text)

(***************************************************************************)
(* Post-Worthiness Judge                                                   *)
(***************************************************************************)
\* Python values a JSON field can hold, with their truth value
PyBool(b) == [type |-> "bool", truthy |-> b,
              repr |-> IF b THEN "True" ELSE "False"]
PyText(t) == [type |-> "str", truthy |-> t # "", repr |-> t]
PyInt(n) == [type |-> "int", truthy |-> n # 0,
             repr |-> IF n = 0 THEN "0" ELSE "1"]
PyNone == [type |-> "NoneType", truthy |-> FALSE, repr |-> "None"]

\* A JSON document: an object with or without a "should_post" member, or a
\* document that is no object.
JsonObject(has, v) == [kind |-> "object", has |-> has, should_post |-> v]
JsonOther(kind) == [kind |-> kind, has |-> FALSE, should_post |-> PyNone]

\* A response text is a sequence of tokens: whitespace ("ws"), three
\* backticks followed by json ("fence_json"), three backticks ("fence"),
\* other text ("text"), and a JSON document ("json").
Tok(kind) == [tok |-> kind, doc |-> JsonOther("-")]
DocTok(d) == [tok |-> "json", doc |-> d]

\* str.strip()
RECURSIVE LStrip(_)
LStrip(t) == IF t # <<>> /\ Head(t).tok = "ws" THEN LStrip(Tail(t)) ELSE t
RECURSIVE RStrip(_)
RStrip(t) ==
    IF t # <<>> /\ t[Len(t)].tok = "ws"
    THEN RStrip(SubSeq(t, 1, Len(t) - 1)) ELSE t
Strip(t) == RStrip(LStrip(t))

\* cleaned_response[:-3] if cleaned_response ends with the fence marker
DropClosingFence(t) ==
    IF t # <<>> /\ t[Len(t)].tok = "fence"
    THEN SubSeq(t, 1, Len(t) - 1) ELSE t

\* clean_json_response(response_text)
clean_json_response(response_text) ==
    LET cleaned == Strip(response_text)
    IN IF cleaned # <<>> /\ Head(cleaned).tok \in {"fence_json", "fence"}
       THEN Strip(DropClosingFence(Tail(cleaned)))
       ELSE cleaned

\* json.loads(cleaned_response): the document, or JSONDecodeError
JsonLoads(t) ==
    IF Len(t) = 1 /\ t[1].tok = "json"
    THEN [error |-> "", doc |-> t[1].doc]
    ELSE [error |-> "JSONDecodeError", doc |-> JsonOther("-")]

\* what a call returns or raises; `called` tells whether the generation
\* collaborator was invoked
Return(should_post, reasoning, called) ==
    [raised |-> "", should_post |-> should_post, reasoning |-> reasoning,
     called |-> called]
Raise(exception, called) ==
    [raised |-> exception, should_post |-> PyNone, reasoning |-> "",
     called |-> called]

\* should_post_about_commits(commit_messages), given the API key of the
\* environment, whether Anthropic(api_key=...) can be constructed, and what
\* client.messages.create does
should_post_about_commits(commit_messages, key, client, generation) ==
    IF key = "" THEN Raise("ValueError", FALSE)
    ELSE IF client = "raise" THEN Raise("AnthropicError", FALSE)
    ELSE IF generation.outcome # "text"
    THEN Return(PyBool(FALSE), "AI evaluation failed", TRUE)
    ELSE LET parsed == JsonLoads(clean_json_response(Strip(generation.text)))
         IN IF parsed.error # ""
            THEN Return(PyBool(FALSE), "Failed to parse AI response", TRUE)
            ELSE IF parsed.doc.kind # "object"
            THEN Return(PyBool(FALSE), "AI evaluation failed", TRUE)
            ELSE Return(IF parsed.doc.has THEN parsed.doc.should_post
                        ELSE PyBool(FALSE),
                        "reasoning", TRUE)

\* variant: should_create_post without its try/except
should_create_post_uncaught(recent, key, client, generation) ==
    IF recent = <<>>
    THEN Return(PyBool(FALSE), "No recent commits found", FALSE)
    ELSE should_post_about_commits(recent, key, client, generation)

\* variant: should_create_post without its empty-window return
should_create_post_unguarded(recent, key, client, generation) ==
    LET res == should_post_about_commits(recent, key, client, generation)
    IN IF res.raised # ""
       THEN Return(PyBool(FALSE), "Error evaluating commits", res.called)
       ELSE res

\* should_create_post from the rows of the window on: `recent` are the
\* messages of response.data
should_create_post(recent, key, client, generation) ==
    IF recent = <<>>
    THEN Return(PyBool(FALSE), "No recent commits found", FALSE)
    ELSE LET res == should_post_about_commits(recent, key, client, generation)
         IN IF res.raised # ""
            THEN Return(PyBool(FALSE), "Error evaluating commits", res.called)
            ELSE res

(***************************************************************************)
(* Timestamp Normalizer                                                    *)
(***************************************************************************)
\* The values a timestamp can be.  An integer is the pair (hi, lo) standing
\* for hi * 10^9 + lo with lo in 0..10^9-1, as the upper bound of the
\* Normalizer does not fit in 32 bits.  A string has a form and, when it is
\* the decimal text of an integer or the ISO text of an instant, that number:
\*   "decimal"     str(n), as "1700000000" or "-1"
\*   "iso"         datetime.isoformat(), as "2023-11-14T22:13:20"
\*   "iso-z"       as "2023-11-14T22:13:20Z"
\*   "iso-offset"  as "2023-11-14T22:13:20+01:00"
\*   "iso-date"    as "2023-11-14"
\*   "iso-bad"     looks like one and does not parse, as "2023-13-45T99:00"
\*   "ctime"       datetime.ctime(), as "Tue Nov 14 22:13:20 2023"
\*   "word"        as "yesterday"
\*   "empty"       ""
TsNone == [type |-> "NoneType", form |-> "-", hi |-> 0, lo |-> 0]
TsInt(hi, lo) == [type |-> "int", form |-> "-", hi |-> hi, lo |-> lo]
TsStr(form, hi, lo) == [type |-> "str", form |-> form, hi |-> hi, lo |-> lo]
\* a JSON array where a timestamp is expected
TsList == [type |-> "list", form |-> "-", hi |-> 0, lo |-> 0]

IsoForms == {"iso", "iso-z", "iso-offset", "iso-date"}

\* a < b and a <= b on integers
Less(a, b) == a.hi < b.hi \/ (a.hi = b.hi /\ a.lo < b.lo)
Leq(a, b) == a.hi < b.hi \/ (a.hi = b.hi /\ a.lo <= b.lo)

\* 'T' in timestamp or '-' in timestamp
ContainsTOrDash(timestamp) ==
    \/ timestamp.form \in IsoForms \cup {"iso-bad", "ctime"}
    \/ timestamp.form = "decimal" /\ timestamp.hi < 0

\* what the body of a call returns or raises
Value(v) == [raised |-> "", value |-> v]
Raised(exception) == [raised |-> exception, value |-> TsNone]

\* datetime.fromisoformat(timestamp.replace('Z', '+00:00'))
fromisoformat(timestamp) ==
    IF timestamp.form \in IsoForms THEN Value(timestamp)
    ELSE Raised("ValueError")

\* int(timestamp) for a string, the value itself otherwise
ToInt(timestamp) ==
    IF timestamp.type # "str" THEN Value(timestamp)
    ELSE IF timestamp.form = "decimal"
    THEN Value(TsInt(timestamp.hi, timestamp.lo))
    ELSE Raised("ValueError")

\* Min: Jan 1, 1970 (0), Max: Jan 1, 2100 (4102444800)
MinTimestamp == TsInt(0, 0)
MaxTimestamp == TsInt(4, 102444800)

\* variant: the upper bound excluded
OutsideRangeExclusive(timestamp_int) ==
    Less(timestamp_int, MinTimestamp) \/ Leq(MaxTimestamp, timestamp_int)

\* timestamp_int < 0 or timestamp_int > 4102444800
OutsideRange(timestamp_int) ==
    Less(timestamp_int, MinTimestamp) \/ Less(MaxTimestamp, timestamp_int)

\* variant: the date is written as datetime.ctime() writes it
ctime(timestamp_int) == TsStr("ctime", timestamp_int.hi, timestamp_int.lo)

\* datetime.fromtimestamp(timestamp_int).isoformat()
isoformat(timestamp_int) == TsStr("iso", timestamp_int.hi, timestamp_int.lo)

\* the try block of convert_timestamp_to_iso
TryConvert(timestamp) ==
    IF timestamp.type = "str" /\ ContainsTOrDash(timestamp)
    THEN fromisoformat(timestamp)
    ELSE LET parsed == ToInt(timestamp) IN
         IF parsed.raised # "" THEN parsed
         ELSE IF parsed.value.type # "int" THEN Raised("TypeError")
         ELSE IF OutsideRange(parsed.value) THEN Value(TsNone)
         ELSE Value(isoformat(parsed.value))

\* variant: convert_timestamp_to_iso without its except clause
convert_timestamp_to_iso_uncaught(timestamp) ==
    IF timestamp = TsNone THEN Value(TsNone) ELSE TryConvert(timestamp)

\* convert_timestamp_to_iso(timestamp)
convert_timestamp_to_iso(timestamp) ==
    IF timestamp = TsNone THEN Value(TsNone)
    ELSE LET res == TryConvert(timestamp) IN
         IF res.raised \in {"ValueError", "TypeError", "OSError"}
         THEN Value(TsNone)
         ELSE res

(***************************************************************************)
(* Inputs of a webhook request                                             *)
(***************************************************************************)
Secrets == {"", "k1"}
Keys == {"k1", "k2"}
Bodies == {"b1", "b2"}

\* The sender's side: "sha256=" followed by the HMAC-SHA256 hex digest of
\* the body under the sender's key, as GitHub computes the header.
Sign(body, key) == <<"sha256=", "hmac", key, body>>

\* X-Hub-Signature-256 as it can arrive: absent, empty, a signature made
\* with some key over some body, the bare digest without its prefix, and a
\* value holding a non-ASCII character.
SignatureHeaders ==
    {None, Str(<<>>), Str(<<NonAsciiChar>>)}
    \cup {Str(Sign(b, k)) : k \in Keys, b \in Bodies}
    \cup {Str(HexDigest(k, b)) : k \in Keys, b \in Bodies}

\* the raw body of a webhook request, and the headers sent with it: the
\* signature of another key or of another body among them
WebhookBody == "b1"
WebhookSignatures ==
    {None, Str(<<>>), Str(<<NonAsciiChar>>),
     Str(Sign(WebhookBody, "k1")),
     Str(Sign(WebhookBody, "k2")),
     Str(Sign("b2", "k1")),
     Str(HexDigest("k1", WebhookBody))}

\* payload["repository"]: public, private, without a "private" key, or absent
Repositories == {"public", "private", "noflag", "norepo"}
Refs == {"refs/heads/main", "refs/heads/develop"}
\* the i-th commit of a push has an empty (or missing) message or Texts[i]
Texts == <<"feat", "fix", "docs", "test">>
Messages == {""} \cup {Texts[i] : i \in 1..Len(Texts)}
\* commit["timestamp"] of the payload: an epoch integer
Timestamps == {TsInt(0, 100)}
CommitPayloads == [message : Messages, timestamp : Timestamps]
Pushes ==
    UNION {{p \in [1..n -> CommitPayloads] :
               \A i \in 1..n : p[i].message \in {"", Texts[i]}} :
           n \in 0..MaxCommits}
\* payload["sender"]["login"]; "" stands for a missing sender or login
Logins == {"alice", "mallory", ""}

EntryPoints == {"app", "main"}

(***************************************************************************)
(* Responses                                                               *)
(***************************************************************************)
NoResp == [status |-> 0, body |-> [pending |-> TRUE]]
\* raise HTTPException(status_code, detail): FastAPI answers {"detail": ...}
HTTPException(status_code, detail) ==
    [status |-> status_code, body |-> [detail |-> detail]]
\* an exception no handler catches: Starlette answers 500 in plain text
ServerError == [status |-> 500, body |-> [plain |-> "Internal Server Error"]]
\* return {...}: FastAPI answers 200 with the dict as JSON
Ok(body) == [status |-> 200, body |-> body]

(***************************************************************************)
(* Request state                                                           *)
(***************************************************************************)
\* The locals of github_webhook, with five history fields: `after`, the
\* requests that were answered before this one arrived, `inserted`, how the
\* commit insert ended, `answer`, what the Judge's collaborator produced,
\* `summary`, how the call of the Summarizer ended, and `updated`, the rows
\* the update reached.
IdleReq ==
    [pc |-> "idle", entry |-> "-", body |-> "-", signature |-> None,
     repository |-> "-", ref |-> "-", commits |-> <<>>, login |-> "-",
     user_id |-> "", commit_ids |-> {}, window |-> {}, answer |-> "-",
     inserted |-> "-", summary |-> "-", after |-> {},
     should_post |-> FALSE,
     reasoning |-> "", commit_messages |-> <<>>, post_content |-> "",
     post_id |-> 0, updated |-> {}, resp |-> NoResp]

Called(r, name) == [calls EXCEPT ![r] = Append(@, name)]

GithubUrl(login) == <<"https://github.com/", login>>

\* variant: the designated branch taken to be another one
OtherBranchRef == "refs/heads/develop"

\* the designated branch
MainRef == "refs/heads/main"

\* variant: repository.get("private", False)
IsPrivateByFlag(repository) == repository = "private"

\* repository.get("private", True) with repository = payload.get("repository", {})
IsPrivate(repository) == repository # "public"

\* repository.get("full_name", "unknown")
FullName(repository) == IF repository = "norepo" THEN "unknown" ELSE "crax/app"

\* str(repository.get("id", "")): the one repository of the model
RepositoryId(repository) == IF repository = "norepo" THEN "" ELSE "42"

\* [commit.get("message", "") for commit in commits if commit.get("message")]
RECURSIVE NonEmptyMessages(_)
NonEmptyMessages(cs) ==
    IF cs = <<>> THEN <<>>
    ELSE IF Head(cs).message = "" THEN NonEmptyMessages(Tail(cs))
    ELSE <<Head(cs).message>> \o NonEmptyMessages(Tail(cs))

(***************************************************************************)
(* Webhook Orchestrator: receive and authenticate                          *)
(***************************************************************************)
\* A POST /webhooks/github arrives at one of the two servers.
Receive(r) ==
    /\ req[r].pc = "idle"
    /\ \E e \in EntryPoints, sig \in WebhookSignatures :
          req' = [req EXCEPT ![r].pc = "auth", ![r].entry = e,
                             ![r].body = WebhookBody, ![r].signature = sig,
                             ![r].after = {o \in Reqs : req[o].pc = "done"}]
    /\ UNCHANGED <<secret, api_key, profiles, commits, posts, calls, probe, verdict>>

\* The header check and verify_github_signature(body, signature); the same
\* code in app.py and main.py.  The ValueError and the TypeError are caught
\* by no handler.
Authenticate(r) ==
    /\ req[r].pc = "auth"
    /\ LET sig == req[r].signature
           v   == verify_github_signature(req[r].body, sig, secret)
       IN IF Falsy(sig)
          THEN /\ req' = [req EXCEPT ![r].pc = "done", ![r].resp =
                      HTTPException(400, "Missing X-Hub-Signature-256 header")]
               /\ calls' = calls
          ELSE /\ calls' = Called(r, "verify")
               /\ req' = [req EXCEPT
                     ![r].pc = IF v = "True" THEN "filter" ELSE "done",
                     ![r].resp =
                        IF v = "True" THEN NoResp
                        ELSE IF v = "False"
                             THEN HTTPException(400, "Invalid signature")
                             ELSE ServerError]
    /\ UNCHANGED <<secret, api_key, profiles, commits, posts, probe, verdict>>

(***************************************************************************)
(* Webhook Orchestrator: filter and extract                                *)
(***************************************************************************)
\* variant: a payload without login is taken on to the identity lookup
NoUsernameIgnored(github_username) == FALSE

\* not github_username: the sender or its login is missing, or empty
NoUsername(github_username) == github_username = ""

\* app.py: parse the payload, skip private repositories, skip other
\* branches, extract the commits and the sender login.  The fields the code
\* reads after the two filters are drawn only when it reads them.
FilterApp(r) ==
    /\ req[r].pc = "filter" /\ req[r].entry = "app"
    /\ \E repository \in Repositories, ref \in Refs :
        LET got == [req[r] EXCEPT !.repository = repository, !.ref = ref] IN
        IF IsPrivate(repository)
        THEN req' = [req EXCEPT ![r] = [got EXCEPT !.pc = "done", !.resp =
                 Ok([message |-> "Skipped - private repository",
                     repository |-> FullName(repository)])]]
        ELSE IF ref # MainRef
        THEN req' = [req EXCEPT ![r] = [got EXCEPT !.pc = "done", !.resp =
                 Ok([message |-> "Skipped - not a push to main branch",
                     ref |-> ref])]]
        ELSE \E push \in Pushes :
            IF push = <<>>
            THEN req' = [req EXCEPT ![r] = [got EXCEPT !.pc = "done", !.resp =
                     Ok([message |-> "No commits found in push event"])]]
            ELSE \E login \in Logins :
                IF NoUsername(login)
                THEN req' = [req EXCEPT ![r] = [got EXCEPT !.commits = push,
                         !.login = login, !.pc = "done", !.resp =
                         HTTPException(400,
                             "No GitHub username found in webhook payload")]]
                ELSE req' = [req EXCEPT ![r] = [got EXCEPT !.commits = push,
                         !.login = login, !.pc = "resolve"]]
    /\ UNCHANGED <<secret, api_key, profiles, commits, posts, calls, probe, verdict>>

\* main.py: skip other branches, extract the commits, keep the non-empty
\* messages, extract the sender login.  The repository is never read.
FilterMain(r) ==
    /\ req[r].pc = "filter" /\ req[r].entry = "main"
    /\ \E ref \in Refs :
        LET got == [req[r] EXCEPT !.ref = ref] IN
        IF ref # MainRef
        THEN req' = [req EXCEPT ![r] = [got EXCEPT !.pc = "done", !.resp =
                 Ok([message |-> "Skipped - not a push to main branch",
                     ref |-> ref])]]
        ELSE \E push \in Pushes :
            IF push = <<>>
            THEN req' = [req EXCEPT ![r] = [got EXCEPT !.pc = "done", !.resp =
                     Ok([message |-> "No commits found in push event"])]]
            ELSE IF NonEmptyMessages(push) = <<>>
            THEN req' = [req EXCEPT ![r] = [got EXCEPT !.commits = push,
                     !.pc = "done", !.resp =
                     Ok([message |-> "No valid commit messages found"])]]
            ELSE \E login \in Logins :
                IF NoUsername(login)
                THEN req' = [req EXCEPT ![r] = [got EXCEPT !.commits = push,
                         !.commit_messages = NonEmptyMessages(push),
                         !.login = login, !.pc = "done", !.resp =
                         HTTPException(400,
                             "No GitHub username found in webhook payload")]]
                ELSE req' = [req EXCEPT ![r] = [got EXCEPT !.commits = push,
                         !.commit_messages = NonEmptyMessages(push),
                         !.login = login, !.pc = "resolve"]]
    /\ UNCHANGED <<secret, api_key, profiles, commits, posts, calls, probe, verdict>>

(***************************************************************************)
(* Commit Ingestion Store                                                  *)
(***************************************************************************)
\* .order("committed_at", desc=True).limit(10)
WindowLimit == 10

Min(a, b) == IF a < b THEN a ELSE b

\* table("profiles").select("id").eq("github_url", github_url)
ProfilesSelect(github_url) == {p \in profiles : p.github_url = github_url}

\* variant: an unknown username falls back to some stored profile
resolve_user_id_fallback(github_username) ==
    LET rows == ProfilesSelect(GithubUrl(github_username))
    IN IF rows # {} THEN (CHOOSE p \in rows : TRUE).id
       ELSE (CHOOSE p \in profiles : TRUE).id

\* resolve_user_id: response.data[0]["id"], or None (here "")
resolve_user_id(github_username) ==
    LET rows == ProfilesSelect(GithubUrl(github_username))
    IN IF rows # {} THEN (CHOOSE p \in rows : TRUE).id ELSE ""

\* store_commits: the row built for one commit of the payload (app.py stores
\* commit.get("timestamp") as it is).  `by` is history: the request that
\* inserted the row.
CommitEntry(r, user_id, commit, repository_id) ==
    [user_id |-> user_id, repository_id |-> repository_id,
     message |-> commit.message, committed_at |-> commit.timestamp,
     post_id |-> 0, by |-> r]

CommitData(r, user_id, push, repository_id) ==
    [i \in 1..Len(push) |-> CommitEntry(r, user_id, push[i], repository_id)]

\* the ids the insert gives the rows of commit_data
NewCommitIds(n) == (Len(commits) + 1)..(Len(commits) + n)

\* .eq("user_id", ..).eq("repository_id", ..).is_("post_id", "null")
Unattributed(user_id, repository_id) ==
    {i \in 1..Len(commits) :
        /\ commits[i].user_id = user_id
        /\ commits[i].repository_id = repository_id
        /\ commits[i].post_id = 0}

\* variant: the query returns the newest unattributed row alone
WindowsNewestOnly(user_id, repository_id) ==
    LET U == Unattributed(user_id, repository_id)
    IN IF U = {} THEN {{}}
       ELSE {{i} : i \in {k \in U : \A j \in U :
                              Leq(commits[j].committed_at,
                                  commits[k].committed_at)}}

\* The rows the window query can return: the newest WindowLimit unattributed
\* rows (rows of equal committed_at in any order).  The list is kept as the
\* set of its row ids.
Windows(user_id, repository_id) ==
    LET U == Unattributed(user_id, repository_id)
        n == Min(WindowLimit, Cardinality(U))
        \* the rows newer than row i, and those not older than it
        Newer(i) == {j \in U : Less(commits[i].committed_at,
                                    commits[j].committed_at)}
        NotOlder(i) == {j \in U \ {i} : Leq(commits[i].committed_at,
                                             commits[j].committed_at)}
        \* the rows every answer holds, and those an answer can hold
        sure == {i \in U : Cardinality(NotOlder(i)) < n}
        open == {i \in U \ sure : Cardinality(Newer(i)) < n}
    IN {sure \cup t : t \in {x \in SUBSET open :
                                 Cardinality(x) = n - Cardinality(sure)}}

\* variant: the update without its .in_("id", commit_ids) filter
UpdatePostIdUnfiltered(updated, post_id) ==
    [i \in 1..Len(commits) |-> [commits[i] EXCEPT !.post_id = post_id]]

\* variant: the update reaching only the first of commit_ids
UpdatePostIdFirst(updated, post_id) ==
    [i \in 1..Len(commits) |->
        IF i \in updated /\ \A j \in updated : i <= j
        THEN [commits[i] EXCEPT !.post_id = post_id]
        ELSE commits[i]]

\* table("commits").update({"post_id": post_id}).in_("id", commit_ids),
\* `updated` being the rows the store did update
UpdatePostId(updated, post_id) ==
    [i \in 1..Len(commits) |->
        IF i \in updated THEN [commits[i] EXCEPT !.post_id = post_id]
        ELSE commits[i]]

\* create_post: post_data.  `by` is history: the request that inserted it.
PostData(r, author_id, description) ==
    [author_id |-> author_id, description |-> description, type |-> "push",
     by |-> r]

(***************************************************************************)
(* Webhook Orchestrator: resolve identity and ingest                       *)
(***************************************************************************)
\* resolve_user_id(github_username); called outside any try block, in both
\* servers.
ResolveIdentity(r) ==
    /\ req[r].pc = "resolve"
    /\ calls' = Called(r, "profiles.select")
    /\ \E outcome \in {"ok", "raise"} :
        IF outcome = "raise"
        THEN req' = [req EXCEPT ![r].pc = "done", ![r].resp = ServerError]
        ELSE LET user_id == resolve_user_id(req[r].login) IN
             IF user_id = ""
             THEN req' = [req EXCEPT ![r].pc = "done", ![r].resp =
                      HTTPException(404, "User not found for GitHub username")]
             ELSE req' = [req EXCEPT ![r].user_id = user_id, ![r].pc =
                      IF req[r].entry = "app" THEN "ingest" ELSE "summarize"]
    /\ UNCHANGED <<secret, api_key, profiles, commits, posts, probe, verdict>>

\* variant: the result of store_commits is not looked at, the request goes
\* on to the window query whatever the insert did
IngestUnchecked(r) ==
    /\ req[r].pc = "ingest"
    /\ calls' = Called(r, "commits.insert")
    /\ \E outcome \in {"ok", "empty", "raise"} :
        IF outcome = "ok"
        THEN /\ commits' = commits \o CommitData(r, req[r].user_id, req[r].commits,
                                        RepositoryId(req[r].repository))
             /\ req' = [req EXCEPT ![r].pc = "window", ![r].commit_ids =
                           NewCommitIds(Len(req[r].commits)),
                           ![r].inserted = outcome]
        ELSE /\ commits' = commits
             /\ req' = [req EXCEPT ![r].pc = "window", ![r].inserted = outcome]
    /\ UNCHANGED <<secret, api_key, profiles, posts, probe, verdict>>

\* app.py: store_commits(user_id, commits, ...) inside try/except.
Ingest(r) ==
    /\ req[r].pc = "ingest"
    /\ calls' = Called(r, "commits.insert")
    /\ \E outcome \in {"ok", "empty", "raise"} :
        IF outcome = "ok"
        THEN /\ commits' = commits \o CommitData(r, req[r].user_id, req[r].commits,
                                        RepositoryId(req[r].repository))
             /\ req' = [req EXCEPT ![r].pc = "window", ![r].commit_ids =
                           NewCommitIds(Len(req[r].commits)),
                           ![r].inserted = outcome]
        ELSE /\ commits' = commits
             /\ req' = [req EXCEPT ![r].pc = "done", ![r].inserted = outcome,
                           ![r].resp =
                           HTTPException(500, "Failed to store commits")]
    /\ UNCHANGED <<secret, api_key, profiles, posts, probe, verdict>>

(***************************************************************************)
(* Webhook Orchestrator: judge                                             *)
(***************************************************************************)
StoredOnly(r, reasoning) ==
    Ok([message |-> "Commits stored but no post created",
        reasoning |-> reasoning,
        commits_stored |-> Cardinality(req[r].commit_ids)])

\* variant: the window query waits while another request is between its
\* own window query and its response
FetchWindowExclusive(r) ==
    /\ req[r].pc = "window"
    /\ \A o \in Reqs \ {r} :
          req[o].pc \notin {"judge", "summarize", "create_post", "attach"}
    /\ calls' = Called(r, "commits.select")
    /\ \E outcome \in {"ok", "raise"} :
        IF outcome = "raise"
        THEN req' = [req EXCEPT ![r].pc = "done", ![r].resp =
                 HTTPException(500, "Failed to evaluate commits")]
        ELSE \E w \in Windows(req[r].user_id, RepositoryId(req[r].repository)) :
            IF w = {}
            THEN req' = [req EXCEPT ![r].pc = "done",
                     ![r].reasoning = "No recent commits found", ![r].resp =
                     StoredOnly(r, "No recent commits found")]
            ELSE req' = [req EXCEPT ![r].pc = "judge", ![r].window = w]
    /\ UNCHANGED <<secret, api_key, profiles, commits, posts, probe, verdict>>

\* should_create_post, the window query
FetchWindow(r) ==
    /\ req[r].pc = "window"
    /\ calls' = Called(r, "commits.select")
    /\ \E outcome \in {"ok", "raise"} :
        IF outcome = "raise"
        THEN req' = [req EXCEPT ![r].pc = "done", ![r].resp =
                 HTTPException(500, "Failed to evaluate commits")]
        ELSE \E w \in Windows(req[r].user_id, RepositoryId(req[r].repository)) :
            IF w = {}
            THEN req' = [req EXCEPT ![r].pc = "done",
                     ![r].reasoning = "No recent commits found", ![r].resp =
                     StoredOnly(r, "No recent commits found")]
            ELSE req' = [req EXCEPT ![r].pc = "judge", ![r].window = w]
    /\ UNCHANGED <<secret, api_key, profiles, commits, posts, probe, verdict>>

\* what the generation collaborator makes the Judge return
JudgeAnswers == {"true", "false", "error"}

\* variant: a failed judgment counted as an affirmative one
ShouldPostFailOpen(answer) == answer \in {"true", "error", "nokey"}

\* should_post as should_create_post returns it: the Judge's decision, and
\* False when the Judge failed or raised
ShouldPost(answer) == answer = "true"

Reasoning(answer) ==
    IF answer \in {"true", "false"} THEN "reasoning"
    ELSE IF answer = "error" THEN "AI evaluation failed"
    ELSE "Error evaluating commits"

\* variant: after a failed evaluation the window is queried and judged again
JudgeAgain(r) ==
    /\ req[r].pc = "judge"
    /\ \E answer \in (IF api_key = "" THEN {"nokey"} ELSE JudgeAnswers) :
        /\ calls' = IF answer = "nokey" THEN calls
                    ELSE Called(r, "judge.generate")
        /\ IF answer = "true"
           THEN req' = [req EXCEPT ![r].pc = "summarize",
                                   ![r].answer = answer,
                                   ![r].should_post = TRUE,
                                   ![r].reasoning = Reasoning(answer)]
           ELSE IF answer = "error" /\ req[r].answer = "-"
           THEN req' = [req EXCEPT ![r].pc = "window", ![r].answer = answer]
           ELSE req' = [req EXCEPT ![r].pc = "done",
                                   ![r].answer = answer,
                                   ![r].reasoning = Reasoning(answer),
                                   ![r].resp = StoredOnly(r, Reasoning(answer))]
    /\ UNCHANGED <<secret, api_key, profiles, commits, posts, probe, verdict>>

\* should_create_post, the call of should_post_about_commits in its try
\* block: without an API key the Judge raises before any generation call.
Judge(r) ==
    /\ req[r].pc = "judge"
    /\ \E answer \in (IF api_key = "" THEN {"nokey"} ELSE JudgeAnswers) :
        /\ calls' = IF answer = "nokey" THEN calls
                    ELSE Called(r, "judge.generate")
        /\ IF ShouldPost(answer)
           THEN req' = [req EXCEPT ![r].pc = "summarize",
                                   ![r].answer = answer,
                                   ![r].should_post = TRUE,
                                   ![r].reasoning = Reasoning(answer)]
           ELSE req' = [req EXCEPT ![r].pc = "done",
                                   ![r].answer = answer,
                                   ![r].reasoning = Reasoning(answer),
                                   ![r].resp = StoredOnly(r, Reasoning(answer))]
    /\ UNCHANGED <<secret, api_key, profiles, commits, posts, probe, verdict>>

(***************************************************************************)
(* Webhook Orchestrator: summarize and publish                             *)
(***************************************************************************)
\* variant: a failed summary is replaced by a text put together from the
\* commit messages, and the request goes on
SummarizeWithFallback(r, commit_messages) ==
    \E outcome \in (IF api_key = "" THEN {"nokey"} ELSE {"ok", "raise"}) :
        /\ calls' = IF outcome = "nokey" THEN calls
                    ELSE Called(r, "summarize.generate")
        /\ req' = [req EXCEPT ![r].pc = "create_post",
                              ![r].commit_messages = commit_messages,
                              ![r].summary = outcome,
                              ![r].post_content =
                                  IF outcome = "ok" THEN "generated post"
                                  ELSE "fallback post"]

\* summarize_commits(commit_messages) inside try/except: raises without an
\* API key (no generation call) and when the generation call fails.
SummarizeWith(r, commit_messages) ==
    \E outcome \in (IF api_key = "" THEN {"nokey"} ELSE {"ok", "raise"}) :
        /\ calls' = IF outcome = "nokey" THEN calls
                    ELSE Called(r, "summarize.generate")
        /\ IF outcome = "ok"
           THEN req' = [req EXCEPT ![r].pc = "create_post",
                                   ![r].commit_messages = commit_messages,
                                   ![r].summary = outcome,
                                   ![r].post_content = "generated post"]
           ELSE req' = [req EXCEPT ![r].pc = "done",
                                   ![r].commit_messages = commit_messages,
                                   ![r].summary = outcome,
                                   ![r].resp = HTTPException(500,
                                       "Failed to generate post summary")]

\* the messages of the rows w, in the order of their ids
RECURSIVE MessagesOf(_)
MessagesOf(w) ==
    IF w = {} THEN <<>>
    ELSE LET first == CHOOSE i \in w : \A j \in w : i <= j
         IN <<commits[first].message>> \o MessagesOf(w \ {first})

\* variant: the Summarizer is given the messages of the judged window
SummarizeAppWindow(r) ==
    /\ req[r].pc = "summarize" /\ req[r].entry = "app"
    /\ SummarizeWith(r, MessagesOf(req[r].window))
    /\ UNCHANGED <<secret, api_key, profiles, commits, posts, probe, verdict>>

\* app.py: the messages of the current push, then the Summarizer
SummarizeApp(r) ==
    /\ req[r].pc = "summarize" /\ req[r].entry = "app"
    /\ SummarizeWith(r, NonEmptyMessages(req[r].commits))
    /\ UNCHANGED <<secret, api_key, profiles, commits, posts, probe, verdict>>

\* main.py: the Summarizer on the messages kept by the filter
SummarizeMain(r) ==
    /\ req[r].pc = "summarize" /\ req[r].entry = "main"
    /\ SummarizeWith(r, req[r].commit_messages)
    /\ UNCHANGED <<secret, api_key, profiles, commits, posts, probe, verdict>>

\* app.py: the response once create_post has returned
PostCreated(r) ==
    Ok([message |-> "Post created successfully",
        post_id |-> req[r].post_id,
        content |-> req[r].post_content,
        commits_processed |-> Len(req[r].commits),
        commits_linked |-> Cardinality(req[r].commit_ids),
        reasoning |-> req[r].reasoning])

\* variant: a failed insert into "posts" is tried a second time
CreatePostAppRetry(r) ==
    /\ req[r].pc = "create_post" /\ req[r].entry = "app"
    /\ calls' = Called(r, "posts.insert")
    /\ \E outcome \in {"ok", "empty", "raise"} :
        IF outcome = "ok"
        THEN /\ posts' = Append(posts,
                    PostData(r, req[r].user_id, req[r].post_content))
             /\ req' = [req EXCEPT ![r].post_id = Len(posts) + 1, ![r].pc =
                    IF req[r].commit_ids # {} THEN "attach" ELSE "done",
                    ![r].resp =
                    IF req[r].commit_ids # {} THEN NoResp
                    ELSE [PostCreated(r) EXCEPT !.body.post_id = Len(posts) + 1]]
        ELSE /\ posts' = posts
             /\ IF \E i \in 1..Len(calls[r]) : calls[r][i] = "posts.insert"
                THEN req' = [req EXCEPT ![r].pc = "done", ![r].resp =
                         HTTPException(500, "Failed to create post")]
                ELSE req' = req
    /\ UNCHANGED <<secret, api_key, profiles, commits, probe, verdict>>

\* app.py create_post, the insert into "posts"; the update follows as its
\* own step when commit_ids is not empty.
CreatePostApp(r) ==
    /\ req[r].pc = "create_post" /\ req[r].entry = "app"
    /\ calls' = Called(r, "posts.insert")
    /\ \E outcome \in {"ok", "empty", "raise"} :
        IF outcome = "ok"
        THEN /\ posts' = Append(posts,
                    PostData(r, req[r].user_id, req[r].post_content))
             /\ req' = [req EXCEPT ![r].post_id = Len(posts) + 1, ![r].pc =
                    IF req[r].commit_ids # {} THEN "attach" ELSE "done",
                    ![r].resp =
                    IF req[r].commit_ids # {} THEN NoResp
                    ELSE [PostCreated(r) EXCEPT !.body.post_id = Len(posts) + 1]]
        ELSE /\ posts' = posts
             /\ req' = [req EXCEPT ![r].pc = "done", ![r].resp =
                    HTTPException(500, "Failed to create post")]
    /\ UNCHANGED <<secret, api_key, profiles, commits, probe, verdict>>

\* app.py create_post, the update linking commit_ids to the post, and the
\* final response.  The store updates all, some or none of the rows, or
\* raises; the exception leaves create_post and is answered with 500.
AttachCommits(r) ==
    /\ req[r].pc = "attach"
    /\ calls' = Called(r, "commits.update")
    /\ \/ \E updated \in SUBSET req[r].commit_ids :
            /\ commits' = UpdatePostId(updated, req[r].post_id)
            /\ req' = [req EXCEPT ![r].pc = "done", ![r].updated = updated,
                                   ![r].resp = PostCreated(r)]
       \/ /\ commits' = commits
          /\ req' = [req EXCEPT ![r].pc = "done", ![r].resp =
                 HTTPException(500, "Failed to create post")]
    /\ UNCHANGED <<secret, api_key, profiles, posts, probe, verdict>>

\* main.py create_post and the final response
CreatePostMain(r) ==
    /\ req[r].pc = "create_post" /\ req[r].entry = "main"
    /\ calls' = Called(r, "posts.insert")
    /\ \E outcome \in {"ok", "empty", "raise"} :
        IF outcome = "ok"
        THEN /\ posts' = Append(posts,
                    PostData(r, req[r].user_id, req[r].post_content))
             /\ req' = [req EXCEPT ![r].post_id = Len(posts) + 1,
                    ![r].pc = "done", ![r].resp =
                    Ok([message |-> "Post created successfully",
                        post_id |-> Len(posts) + 1,
                        content |-> req[r].post_content,
                        commits_processed |-> Len(req[r].commit_messages)])]
        ELSE /\ posts' = posts
             /\ req' = [req EXCEPT ![r].pc = "done", ![r].resp =
                    HTTPException(500, "Failed to create post")]
    /\ UNCHANGED <<secret, api_key, profiles, commits, probe, verdict>>

(***************************************************************************)
(* Specification of the webhook servers                                    *)
(***************************************************************************)
InitStore ==
    /\ profiles = {[github_url |-> GithubUrl("alice"), id |-> "u1"]}
    /\ commits = <<>>
    /\ posts = <<>>

NoProbe == [payload_body |-> "-", signature_header |-> None,
            webhook_secret |-> ""]

Init ==
    /\ secret \in Secrets
    /\ api_key \in {"", "sk-ant"}
    /\ InitStore
    /\ req = [r \in Reqs |-> IdleReq]
    /\ calls = [r \in Reqs |-> <<>>]
    /\ probe = NoProbe
    /\ verdict = "-"

Next ==
    \E r \in Reqs :
        \/ Receive(r)
        \/ Authenticate(r)
        \/ FilterApp(r)
        \/ FilterMain(r)
        \/ ResolveIdentity(r)
        \/ Ingest(r)
        \/ FetchWindow(r)
        \/ Judge(r)
        \/ SummarizeApp(r)
        \/ SummarizeMain(r)
        \/ CreatePostApp(r)
        \/ AttachCommits(r)
        \/ CreatePostMain(r)

Spec == Init /\ [][Next]_vars

\* The steps of github_webhook once the request has arrived.  The handler
\* is a coroutine of straight-line code: when the collaborator call it waits
\* for returns or fails, it goes on.
Handle(r) ==
    \/ Authenticate(r)
    \/ FilterApp(r)
    \/ FilterMain(r)
    \/ ResolveIdentity(r)
    \/ Ingest(r)
    \/ FetchWindow(r)
    \/ Judge(r)
    \/ SummarizeApp(r)
    \/ SummarizeMain(r)
    \/ CreatePostApp(r)
    \/ AttachCommits(r)
    \/ CreatePostMain(r)

\* One webhook event from its arrival to its response, every collaborator
\* call returning or failing.
NextEvent == Receive("r1") \/ Handle("r1")

SpecEvent == Init /\ [][NextEvent]_vars /\ WF_vars(Handle("r1"))

(***************************************************************************)
(* Specification of the Signature Verifier called on its own               *)
(***************************************************************************)
InitVerify ==
    /\ probe \in [payload_body : Bodies, signature_header : SignatureHeaders,
                  webhook_secret : {""} \cup Keys]
    /\ verdict = "-"
    /\ secret = "" /\ api_key = ""
    /\ InitStore
    /\ req = [r \in Reqs |-> IdleReq]
    /\ calls = [r \in Reqs |-> <<>>]

\* one call of utils.verify_github_signature on the inputs drawn
Verify ==
    /\ verdict = "-"
    /\ verdict' = verify_github_signature(probe.payload_body,
                       probe.signature_header, probe.webhook_secret)
    /\ UNCHANGED <<secret, api_key, profiles, commits, posts, req, calls, probe>>

NextVerify == Verify

SpecVerify == InitVerify /\ [][NextVerify]_vars

(***************************************************************************)
(* Specification of the webhook servers over a store that holds commits    *)
(***************************************************************************)
\* The rows earlier pushes of alice to the repository left unattributed: as
\* many as the window holds, all older or all newer than the commits of the
\* pushes to come.
EarlierCommits(base) ==
    [i \in 1..WindowLimit |->
        [user_id |-> "u1", repository_id |-> RepositoryId("public"),
         message |-> "chore", committed_at |-> TsInt(0, base + i),
         post_id |-> 0, by |-> "earlier"]]

InitWindow ==
    /\ secret = "k1"
    /\ api_key = "sk-ant"
    /\ profiles = {[github_url |-> GithubUrl("alice"), id |-> "u1"]}
    /\ \E base \in {0, 200} : commits = EarlierCommits(base)
    /\ posts = <<>>
    /\ req = [r \in Reqs |-> IdleReq]
    /\ calls = [r \in Reqs |-> <<>>]
    /\ probe = NoProbe
    /\ verdict = "-"

SpecWindow == InitWindow /\ [][Next]_vars

(***************************************************************************)
(* Specification of the Judge called on its own                            *)
(***************************************************************************)
\* the values the collaborator can give "should_post"
JsonValues ==
    {PyBool(TRUE), PyBool(FALSE), PyText("true"), PyText("false"), PyText(""),
     PyInt(1), PyInt(0), PyNone}
JsonDocs ==
    {JsonObject(TRUE, v) : v \in JsonValues}
    \cup {JsonObject(FALSE, PyNone)}
    \cup {JsonOther(k) : k \in {"array", "string", "number", "null"}}

\* response texts: what precedes the answer, the answer, what follows it
Prefixes ==
    {<<>>, <<Tok("ws")>>, <<Tok("fence_json")>>, <<Tok("fence_json"), Tok("ws")>>,
     <<Tok("fence")>>, <<Tok("fence"), Tok("text")>>, <<Tok("text")>>}
Answers == {<<DocTok(d)>> : d \in JsonDocs} \cup {<<Tok("text")>>, <<>>}
Suffixes ==
    {<<>>, <<Tok("ws")>>, <<Tok("fence")>>, <<Tok("ws"), Tok("fence")>>,
     <<Tok("fence"), Tok("ws")>>, <<Tok("text")>>}
ResponseTexts ==
    {pre \o ans \o suf : pre \in Prefixes, ans \in Answers, suf \in Suffixes}

\* client.messages.create raises, answers without content, or answers a text
Generations ==
    {[outcome |-> o, text |-> <<>>] : o \in {"raise", "nocontent"}}
    \cup {[outcome |-> "text", text |-> t] : t \in ResponseTexts}

PendingResult == Raise("pending", FALSE)

InitJudge ==
    /\ probe \in [commit_messages : {<<>>, <<"feat">>, <<"feat", "fix">>},
                  api_key : {"", "sk-ant"}, client : {"ok", "raise"},
                  generation : Generations]
    /\ verdict = PendingResult
    /\ secret = "" /\ api_key = ""
    /\ InitStore
    /\ req = [r \in Reqs |-> IdleReq]
    /\ calls = [r \in Reqs |-> <<>>]

\* one evaluation of a window by should_create_post
JudgeCall ==
    /\ verdict = PendingResult
    /\ verdict' = should_create_post(probe.commit_messages, probe.api_key,
                                     probe.client, probe.generation)
    /\ UNCHANGED <<secret, api_key, profiles, commits, posts, req, calls, probe>>

NextJudge == JudgeCall

SpecJudge == InitJudge /\ [][NextJudge]_vars

(***************************************************************************)
(* Specification of the Timestamp Normalizer called on its own             *)
(***************************************************************************)
\* integers around the two ends of the range, as (hi, lo)
His == {-1, 0, 4, 5}
Los == {0, 1, 100, 102444800, 102444801, 999999999}
EpochInputs == {TsInt(hi, lo) : hi \in His, lo \in Los}
\* instants written as ISO text
Instants == {TsInt(0, 0), TsInt(1, 700000000), TsInt(5, 0)}

NormalizerInputs ==
    {TsNone, TsList}
    \cup EpochInputs
    \cup {TsStr("decimal", n.hi, n.lo) : n \in EpochInputs}
    \cup {TsStr(f, n.hi, n.lo) : f \in IsoForms, n \in Instants}
    \cup {TsStr(f, 0, 0) : f \in {"iso-bad", "ctime", "word", "empty"}}

InitNormalize ==
    /\ probe \in [timestamp : NormalizerInputs]
    /\ verdict = <<>>
    /\ secret = "" /\ api_key = ""
    /\ InitStore
    /\ req = [r \in Reqs |-> IdleReq]
    /\ calls = [r \in Reqs |-> <<>>]

\* convert_timestamp_to_iso(timestamp)
Normalize ==
    /\ verdict = <<>>
    /\ verdict' = <<convert_timestamp_to_iso(probe.timestamp)>>
    /\ UNCHANGED <<secret, api_key, profiles, commits, posts, req, calls, probe>>

\* convert_timestamp_to_iso(convert_timestamp_to_iso(timestamp))
Renormalize ==
    /\ Len(verdict) = 1 /\ verdict[1].raised = ""
    /\ verdict' = Append(verdict, convert_timestamp_to_iso(verdict[1].value))
    /\ UNCHANGED <<secret, api_key, profiles, commits, posts, req, calls, probe>>

NextNormalize == Normalize \/ Renormalize

SpecNormalize == InitNormalize /\ [][NextNormalize]_vars

(***************************************************************************)
(* LinkedIn function (functions/process-linkedin/main.py)                  *)
(***************************************************************************)
\* An Authorization header is an optional string; its text is the sequence
\* of "Bearer " (or another beginning) and the words after it, which single
\* spaces separate.
AuthorizationHeaders ==
    {None, Str(<<>>), Str(<<"Bearer ">>),
     Str(<<"Bearer ", "s1">>), Str(<<"Bearer ", "s2">>),
     Str(<<"Bearer ", "s1", "x">>), Str(<<"bearer ", "s1">>), Str(<<"s1">>)}

\* auth_header.startswith('Bearer ')
StartsWithBearer(auth_header) ==
    auth_header.text # <<>> /\ Head(auth_header.text) = "Bearer "

\* verify_authorization(request) of the LinkedIn function
verify_authorization(auth_header, crax_secret_key) ==
    IF crax_secret_key = "" THEN TRUE
    ELSE IF Falsy(auth_header) THEN FALSE
    ELSE IF ~StartsWithBearer(auth_header) THEN FALSE
    ELSE Tail(auth_header.text) = <<crax_secret_key>>

\* what the function answers, and whether it called the scraper and issued
\* the update of the store
LinkedInResult(status, scraped, updated) ==
    [status |-> status, scraped |-> scraped, updated |-> updated]

\* process_linkedin_webhook(request); "json" is what the body parses to,
\* "scrape" what the scraper does, "store" what the store does
process_linkedin_webhook(request, crax_secret_key, scrape, store) ==
    IF request.method = "OPTIONS" THEN LinkedInResult(204, FALSE, FALSE)
    ELSE IF request.method # "POST" THEN LinkedInResult(405, FALSE, FALSE)
    ELSE IF ~verify_authorization(request.authorization, crax_secret_key)
    THEN LinkedInResult(401, FALSE, FALSE)
    ELSE IF request.json = "array" THEN LinkedInResult(500, FALSE, FALSE)
    ELSE IF request.json \in {"none", "nourl", "nouser", "badurl"}
    THEN LinkedInResult(400, FALSE, FALSE)
    ELSE IF scrape = "raise" THEN LinkedInResult(500, TRUE, FALSE)
    ELSE LinkedInResult(200, TRUE, store # "unconfigured")

LinkedInRequests ==
    [method : {"OPTIONS", "GET", "POST"},
     authorization : AuthorizationHeaders,
     json : {"none", "array", "nourl", "nouser", "badurl", "valid"}]

PendingLinkedIn == LinkedInResult(0, FALSE, FALSE)

InitLinkedIn ==
    /\ probe \in [request : LinkedInRequests, crax_secret_key : {"", "s1"},
                  scrape : {"ok", "raise"},
                  store : {"unconfigured", "ok", "empty", "raise"}]
    /\ verdict = PendingLinkedIn
    /\ secret = "" /\ api_key = ""
    /\ InitStore
    /\ req = [r \in Reqs |-> IdleReq]
    /\ calls = [r \in Reqs |-> <<>>]

LinkedInCall ==
    /\ verdict = PendingLinkedIn
    /\ verdict' = process_linkedin_webhook(probe.request,
                       probe.crax_secret_key, probe.scrape, probe.store)
    /\ UNCHANGED <<secret, api_key, profiles, commits, posts, req, calls, probe>>

NextLinkedIn == LinkedInCall

SpecLinkedIn == InitLinkedIn /\ [][NextLinkedIn]_vars

(***************************************************************************)
(* Devpost function (functions/process-devpost/main.py)                    *)
(***************************************************************************)
\* the projects one Devpost page lists, at most
MaxProjects == 2

\* The request in progress: where the handler is, the status it answered,
\* the Chrome driver ("none", "running", "quit"), the number of project
\* containers found and of projects scraped.
Devpost(pc, status, driver, found, scraped) ==
    [pc |-> pc, status |-> status, driver |-> driver, found |-> found,
     scraped |-> scraped]

\* raise HTTPException(status_code=...): the request ends, the driver is
\* left as it is
DevpostRaise(status) == [verdict EXCEPT !.pc = "done", !.status = status]

InitDevpost ==
    /\ probe \in [authorization : AuthorizationHeaders,
                  crax_secret_key : {"", "s1"},
                  supabase_configured : BOOLEAN]
    /\ verdict = Devpost("auth", 0, "none", 0, 0)
    /\ secret = "" /\ api_key = ""
    /\ InitStore
    /\ req = [r \in Reqs |-> IdleReq]
    /\ calls = [r \in Reqs |-> <<>>]

\* verify_authorization, the dependency of the Devpost handler; the token is
\* authorization.split(" ")[1]
DevpostAuthorize ==
    /\ verdict.pc = "auth"
    /\ LET authorization == probe.authorization
           token == IF Len(authorization.text) >= 2
                    THEN authorization.text[2] ELSE ""
       IN verdict' =
            IF Falsy(authorization) THEN DevpostRaise(401)
            ELSE IF ~StartsWithBearer(authorization) THEN DevpostRaise(401)
            ELSE IF probe.crax_secret_key = "" THEN DevpostRaise(500)
            ELSE IF token # probe.crax_secret_key THEN DevpostRaise(401)
            ELSE [verdict EXCEPT !.pc = "client"]
    /\ UNCHANGED <<secret, api_key, profiles, commits, posts, req, calls, probe>>

\* get_supabase_client() in the try block of handle_process_devpost
DevpostClient ==
    /\ verdict.pc = "client"
    /\ verdict' = IF probe.supabase_configured
                  THEN [verdict EXCEPT !.pc = "start"]
                  ELSE DevpostRaise(500)
    /\ UNCHANGED <<secret, api_key, profiles, commits, posts, req, calls, probe>>

\* process_devpost_projects: driver = initialise_driver()
StartDriver ==
    /\ verdict.pc = "start"
    /\ \E outcome \in {"ok", "raise"} :
          verdict' = IF outcome = "ok"
                     THEN [verdict EXCEPT !.pc = "get", !.driver = "running"]
                     ELSE DevpostRaise(500)
    /\ UNCHANGED <<secret, api_key, profiles, commits, posts, req, calls, probe>>

\* driver.get(devpost_url)
Navigate ==
    /\ verdict.pc = "get"
    /\ \E outcome \in {"ok", "raise"} :
          verdict' = IF outcome = "ok" THEN [verdict EXCEPT !.pc = "find"]
                     ELSE DevpostRaise(500)
    /\ UNCHANGED <<secret, api_key, profiles, commits, posts, req, calls, probe>>

\* driver.find_elements(By.CSS_SELECTOR, "a.link-to-software")
FindProjects ==
    /\ verdict.pc = "find"
    /\ \/ \E n \in 0..MaxProjects :
            verdict' = [verdict EXCEPT !.found = n,
                           !.pc = IF n = 0 THEN "quit" ELSE "project"]
       \/ verdict' = DevpostRaise(500)
    /\ UNCHANGED <<secret, api_key, profiles, commits, posts, req, calls, probe>>

\* one turn of the loop: the attribute and element lookups of one project
\* container and the DevpostProject made of them
ScrapeProject ==
    /\ verdict.pc = "project"
    /\ \E outcome \in {"ok", "raise"} :
          verdict' =
            IF outcome = "raise" THEN DevpostRaise(500)
            ELSE [verdict EXCEPT !.scraped = @ + 1,
                     !.pc = IF verdict.scraped + 1 = verdict.found
                            THEN "quit" ELSE "project"]
    /\ UNCHANGED <<secret, api_key, profiles, commits, posts, req, calls, probe>>

\* driver.quit(), after the loop
QuitDriver ==
    /\ verdict.pc = "quit"
    /\ \E outcome \in {"ok", "raise"} :
          verdict' = IF outcome = "ok"
                     THEN [verdict EXCEPT !.pc = "insert", !.driver = "quit"]
                     ELSE [DevpostRaise(500) EXCEPT !.driver = "quit"]
    /\ UNCHANGED <<secret, api_key, profiles, commits, posts, req, calls, probe>>

\* insert_projects_to_database and the response
InsertProjects ==
    /\ verdict.pc = "insert"
    /\ \E outcome \in (IF verdict.scraped = 0 THEN {"ok"} ELSE {"ok", "raise"}) :
          verdict' = [verdict EXCEPT !.pc = "done",
                         !.status = IF outcome = "ok" THEN 200 ELSE 500]
    /\ UNCHANGED <<secret, api_key, profiles, commits, posts, req, calls, probe>>

NextDevpost ==
    \/ DevpostAuthorize
    \/ DevpostClient
    \/ StartDriver
    \/ Navigate
    \/ FindProjects
    \/ ScrapeProject
    \/ QuitDriver
    \/ InsertProjects

SpecDevpost == InitDevpost /\ [][NextDevpost]_vars

(***************************************************************************)
(* Properties                                                              *)
(***************************************************************************)
Done(r) == req[r].pc = "done"
Made(r, name) == \E i \in 1..Len(calls[r]) : calls[r][i] = name
CommitsBy(r) == {i \in 1..Len(commits) : commits[i].by = r}
PostsBy(r) == {p \in 1..Len(posts) : posts[p].by = r}
HasField(r, f) == f \in DOMAIN req[r].resp.body
Skips == {"Skipped - private repository", "Skipped - not a push to main branch"}

\* C1: in every reachable state each commit's post_id is null or the id of
\* an existing post, and no step changes a post_id that is not null.
C1_PostIdWriteOnce ==
    /\ [](\A i \in 1..Len(commits) :
            commits[i].post_id = 0 \/ commits[i].post_id \in 1..Len(posts))
    /\ [][\A i \in 1..Len(commits) :
            commits[i].post_id # 0 =>
                commits'[i].post_id = commits[i].post_id]_vars

\* two posts exist, each with a commit linked to it
C1_Witness ==
    /\ Len(posts) = 2
    /\ \A p \in 1..2 : \E i \in 1..Len(commits) : commits[i].post_id = p

\* the app.py request went through every step and every call succeeded
AllSucceeded(r) ==
    /\ Done(r) /\ req[r].entry = "app" /\ req[r].should_post
    /\ calls[r] = <<"verify", "profiles.select", "commits.insert",
                    "commits.select", "judge.generate", "summarize.generate",
                    "posts.insert", "commits.update">>
    /\ req[r].resp.status = 200
    /\ req[r].updated = req[r].commit_ids

\* C2: an app.py request with an affirmative judgment whose calls all
\* succeeded has created exactly one post, every commit it inserted carries
\* that post's id, and the 200 response carries post_id and the content.
C2_AffirmativePush ==
    \A r \in Reqs : AllSucceeded(r) =>
        /\ Cardinality(PostsBy(r)) = 1
        /\ Cardinality(CommitsBy(r)) = Len(req[r].commits)
        /\ \A i \in CommitsBy(r) : \A p \in PostsBy(r) :
              /\ commits[i].post_id = p
              /\ req[r].resp.body.post_id = p
              /\ req[r].resp.body.content = posts[p].description
        /\ req[r].resp.body.message = "Post created successfully"

\* both requests posted, one of them a push of two commits
C2_Witness ==
    /\ \A r \in Reqs : AllSucceeded(r)
    /\ \E r \in Reqs : Len(req[r].commits) = 2

\* C3 (as claimed): when a post is created and the attach step updated all
\* it was asked to, every commit of the judged window carries the post's id.
C3_JudgedCommitsAttached ==
    \A r \in Reqs : AllSucceeded(r) =>
        \A i \in req[r].window : commits[i].post_id = req[r].post_id

\* the judgment of the request was negative, or the Judge failed
NegativeJudgment(r) ==
    /\ Done(r) /\ Made(r, "commits.select")
    /\ req[r].answer \in {"false", "error", "nokey"}

\* C4: after a negative or failed judgment the request ends with 200 and
\* "Commits stored but no post created", its commits are stored with a null
\* post_id, the Summarizer was not invoked and no post row was created.
C4_NegativeJudgment ==
    \A r \in Reqs : NegativeJudgment(r) =>
        /\ req[r].resp.status = 200
        /\ req[r].resp.body.message = "Commits stored but no post created"
        /\ Cardinality(CommitsBy(r)) = Len(req[r].commits)
        /\ \A i \in CommitsBy(r) : commits[i].post_id = 0
        /\ ~Made(r, "summarize.generate")
        /\ ~Made(r, "posts.insert")
        /\ PostsBy(r) = {}

\* one request ended on a failed Judge, the other on a negative answer
C4_Witness ==
    /\ \E r \in Reqs :
          NegativeJudgment(r) /\ req[r].answer = "error"
    /\ \E r \in Reqs : NegativeJudgment(r) /\ req[r].answer = "false"

\* C5 (as claimed): every post row was inserted by a request whose Judge
\* had returned an affirmative decision.
C5_PostOnlyAfterAffirmative ==
    \A p \in 1..Len(posts) :
        /\ req[posts[p].by].should_post
        /\ Made(posts[p].by, "judge.generate")

\* the identity lookup of the request ran and found no profile
UnknownSender(r) ==
    /\ Done(r) /\ Made(r, "profiles.select")
    /\ \A p \in profiles :
          p.github_url # <<"https://github.com/", req[r].login>>
    /\ req[r].resp # ServerError

\* C6: a push whose sender resolves to no profile ends with 404, and the
\* request stored no commit, created no post and no profile, and made no
\* generation call.
C6_UnknownSender ==
    \A r \in Reqs : UnknownSender(r) =>
        /\ req[r].resp.status = 404
        /\ CommitsBy(r) = {} /\ PostsBy(r) = {}
        /\ profiles = {[github_url |-> GithubUrl("alice"), id |-> "u1"]}
        /\ calls[r] = <<"verify", "profiles.select">>

\* an unknown sender was answered while the other request had stored commits
C6_Witness ==
    \E r, q \in Reqs :
        /\ UnknownSender(r) /\ req[r].login = "mallory"
        /\ CommitsBy(q) # {}

\* an authenticated push to another ref than refs/heads/main was answered
OtherRef(r) ==
    /\ Done(r) /\ Made(r, "verify")
    /\ req[r].ref \in Refs \ {"refs/heads/main"}

\* C7 (as claimed): every authenticated push to another ref is answered 200
\* with a message starting with "Skipped" and the pushed ref in `ref`, and
\* makes no store call.
C7_OtherRefSkipped ==
    \A r \in Reqs : OtherRef(r) =>
        /\ req[r].resp.status = 200
        /\ req[r].resp.body.message \in Skips
        /\ HasField(r, "ref") /\ req[r].resp.body.ref = req[r].ref
        /\ calls[r] = <<"verify">>

\* C7 (amended): ... the response carries the pushed ref in `ref`, except
\* that app.py answers a private repository (or one without a private flag)
\* with the repository name in `repository` and without `ref`.
C7_OtherRefSkippedAmended ==
    \A r \in Reqs : OtherRef(r) =>
        /\ req[r].resp.status = 200
        /\ req[r].resp.body.message \in Skips
        /\ calls[r] = <<"verify">>
        /\ IF req[r].entry = "app" /\ req[r].repository # "public"
           THEN /\ ~HasField(r, "ref")
                /\ HasField(r, "repository")
                /\ req[r].resp.body.message = "Skipped - private repository"
           ELSE /\ HasField(r, "ref") /\ req[r].resp.body.ref = req[r].ref
                /\ req[r].resp.body.message =
                       "Skipped - not a push to main branch"

\* app.py skipped a private repository's push to develop, main.py a push to
\* develop
C7_Witness ==
    \E r, q \in Reqs :
        /\ OtherRef(r) /\ req[r].entry = "app" /\ req[r].repository = "private"
        /\ OtherRef(q) /\ req[q].entry = "main"

\* C8 (as claimed): no collaborator call is made unless the signature is the
\* one of the raw body under the configured secret; a missing header, or a
\* header that does not match under a configured secret, is answered 400
\* without any store or generation call.
C8_AuthenticationGates ==
    \A r \in Reqs :
        /\ (\E i \in 1..Len(calls[r]) : calls[r][i] # "verify") =>
              /\ secret # ""
              /\ req[r].signature = Str(Sign(req[r].body, secret))
        /\ (Done(r) /\ (Falsy(req[r].signature)
                        \/ (secret # "" /\ req[r].signature.text #
                                              Sign(req[r].body, secret)))) =>
              /\ req[r].resp.status = 400
              /\ \A i \in 1..Len(calls[r]) : calls[r][i] = "verify"

\* C9 (as claimed): without a webhook secret every request ends with a 5xx.
C9_NoSecretIsServerError ==
    \A r \in Reqs : (Done(r) /\ secret = "") => req[r].resp.status >= 500

\* C10: under a non-empty secret, the signature of the body verifies, the
\* signature of another body does not, and an empty (or absent) header
\* yields False, not an exception.
C10_VerifyRoundTrip ==
    (verdict # "-" /\ probe.webhook_secret # "") =>
        /\ probe.signature_header =
               Str(Sign(probe.payload_body, probe.webhook_secret))
           => verdict = "True"
        /\ (\E b \in Bodies \ {probe.payload_body} :
               probe.signature_header = Str(Sign(b, probe.webhook_secret)))
           => verdict = "False"
        /\ Falsy(probe.signature_header) => verdict = "False"

\* the signature of another body under the same secret was refused
C10_Witness ==
    /\ verdict = "False" /\ probe.webhook_secret = "k1"
    /\ probe.payload_body = "b1"
    /\ probe.signature_header = Str(Sign("b2", "k1"))

\* the generation collaborator fails the Judge: no API key, no client, or
\* a call that throws
GenerationFails ==
    \/ probe.api_key = ""
    \/ probe.client = "raise"
    \/ probe.generation.outcome = "raise"

AnswersTrue ==
    /\ probe.generation.outcome = "text"
    /\ \E i \in 1..Len(probe.generation.text) :
          probe.generation.text[i] = DocTok(JsonObject(TRUE, PyBool(TRUE)))

\* C12 (as claimed): the Judge returns a should_post that counts as true
\* only for a response whose JSON object has the boolean true as should_post;
\* for every other response, the string "false" included, what it returns
\* counts as false.
C12_JudgeFailClosed ==
    (verdict # PendingResult /\ verdict.should_post.truthy) => AnswersTrue

C14_SummarizerGetsMessages ==
    \A r \in Reqs : req[r].summary # "-" => req[r].commit_messages # <<>>

\* C15: when the generation call of the Summarizer fails after the Judge said
\* yes, the request ends with status 500, has inserted no post, and the commits
\* it stored are all in the store with post_id null.
C15_SummarizerFailure ==
    \A r \in Reqs :
        (req[r].entry = "app" /\ req[r].answer = "true"
         /\ req[r].summary = "raise") =>
            /\ Done(r) /\ req[r].resp.status = 500
            /\ PostsBy(r) = {}
            /\ ~Made(r, "posts.insert")
            /\ CommitsBy(r) = req[r].commit_ids
            /\ Cardinality(CommitsBy(r)) = Len(req[r].commits)
            /\ \A i \in CommitsBy(r) : commits[i].post_id = 0

\* a request whose summary failed while the other request published a post
C15_Witness ==
    \E r \in Reqs :
        /\ req[r].entry = "app" /\ req[r].answer = "true"
        /\ req[r].summary = "raise" /\ Done(r)
        /\ CommitsBy(r) # {}
        /\ \E o \in Reqs \ {r} : PostsBy(o) # {}

\* i is the position of the first call of that name in the log of r (0: none)
FirstCall(r, name) ==
    IF Made(r, name)
    THEN CHOOSE i \in 1..Len(calls[r]) :
             /\ calls[r][i] = name
             /\ \A j \in 1..(i - 1) : calls[r][j] # name
    ELSE 0

\* C16: a request issues the window query only after its own commit insert,
\* and only when that insert has stored the commits of its push.
C16_WindowAfterInsert ==
    \A r \in Reqs :
        (Made(r, "commits.select") \/ req[r].pc = "window") =>
            /\ Made(r, "commits.insert")
            /\ Made(r, "commits.select") =>
                   FirstCall(r, "commits.insert") < FirstCall(r, "commits.select")
            /\ Cardinality(CommitsBy(r)) = Len(req[r].commits)
            /\ CommitsBy(r) = req[r].commit_ids
            /\ CommitsBy(r) # {}

\* both requests have issued their window queries, each after its insert
C16_Witness ==
    \A r \in Reqs : Made(r, "commits.select") /\ Len(req[r].commits) = MaxCommits

\* a canonical timestamp: ISO text as datetime.isoformat() writes it, or as
\* the payload gave it when it parses
Canonical(v) == v.type = "str" /\ v.form \in IsoForms

\* C17 (as claimed): the committed_at of every stored commit is what the
\* Normalizer returns for the timestamp of the payload, null or a canonical
\* timestamp, and never the epoch integer of the payload.
C17_CommittedAtNormalized ==
    \A i \in 1..Len(commits) :
        /\ commits[i].committed_at = TsNone \/ Canonical(commits[i].committed_at)
        /\ \E t \in Timestamps :
              commits[i].committed_at = convert_timestamp_to_iso(t).value

\* the input is an integer, or the decimal text of one
IsInteger(v) == v.type = "int" \/ (v.type = "str" /\ v.form = "decimal")

C19_Idempotent ==
    /\ Len(verdict) = 2 => verdict[2] = verdict[1]
    /\ (verdict # <<>> /\ Canonical(probe.timestamp)) =>
           verdict[1] = Value(probe.timestamp)
    /\ (verdict # <<>> /\ verdict[1].raised = "" /\ verdict[1].value # TsNone)
           => convert_timestamp_to_iso(verdict[1].value) = verdict[1]

\* an epoch integer was normalized, and its output normalized again
C19_Witness ==
    /\ Len(verdict) = 2
    /\ probe.timestamp = TsInt(0, 100)
    /\ verdict[2].value = TsStr("iso", 0, 100)

\* input that is no timestamp
Malformed(v) ==
    \/ v = TsNone
    \/ v.type = "list"
    \/ v.type = "str" /\ v.form \in {"empty", "word", "iso-bad", "ctime"}

\* C20: the Normalizer raises for no input, and returns null for null, the
\* empty string, text that is no number and ISO-looking text that does not
\* parse.
C20_NormalizeNeverRaises ==
    verdict # <<>> =>
        /\ verdict[1].raised = ""
        /\ Malformed(probe.timestamp) => verdict[1].value = TsNone

\* ISO-looking text that does not parse was normalized to null
C20_Witness ==
    /\ verdict # <<>>
    /\ probe.timestamp = TsStr("iso-bad", 0, 0)
    /\ verdict[1] = Value(TsNone)

\* C21: when the commit insert reports no row written, the request ends
\* with status 500, no commit of the push is in the store, and the request
\* makes no window query, no generation call and no post insert.
C21_EmptyInsertFails ==
    \A r \in Reqs : req[r].inserted = "empty" =>
        /\ Done(r) /\ req[r].resp.status = 500
        /\ CommitsBy(r) = {} /\ PostsBy(r) = {}
        /\ calls[r] = <<"verify", "profiles.select", "commits.insert">>

\* an insert reported no row while the other request stored its commits
C21_Witness ==
    \E r, o \in Reqs :
        /\ req[r].inserted = "empty" /\ Done(r)
        /\ req[o].inserted = "ok" /\ CommitsBy(o) # {}

\* C22 (as claimed): once the post row of a request exists, the request
\* ends with status 200 and the id of that post, whatever the update that
\* links the commits did.
C22_AttachBestEffort ==
    \A r \in Reqs : (Done(r) /\ PostsBy(r) # {}) =>
        /\ req[r].resp.status = 200
        /\ HasField(r, "post_id")
        /\ req[r].resp.body.post_id \in PostsBy(r)

C24_MessageAlways ==
    \A r \in Reqs : Done(r) => HasField(r, "message")

\* r handles a delivery of the push event that o had handled, and answered,
\* before r arrived
Redelivery(r, o) ==
    /\ o \in req[r].after /\ Done(r)
    /\ req[r].entry = "app" /\ req[o].entry = "app"
    /\ req[r].body = req[o].body /\ req[r].signature = req[o].signature
    /\ req[r].repository = req[o].repository /\ req[r].ref = req[o].ref
    /\ req[r].commits = req[o].commits /\ req[r].login = req[o].login

\* C25 (as claimed): handling a push event a second time leaves the store as
\* the first handling left it: when the first stored the commits of the
\* push, the second stores none of them again, and when the first made a
\* post, the second makes none.
C25_RedeliveryIdempotent ==
    \A r, o \in Reqs : (Redelivery(r, o) /\ CommitsBy(o) # {}) =>
        /\ CommitsBy(r) = {}
        /\ PostsBy(o) # {} => PostsBy(r) = {}

\* C26: no request waits for another: a request that has stored its commits
\* can issue its window query, and one that has its window can be judged,
\* wherever the other request is; so two requests of one user and repository
\* can both judge overlapping windows and both publish.
C26_NoOrderingEnforced ==
    \A r \in Reqs :
        /\ req[r].pc = "window" => ENABLED FetchWindow(r)
        /\ req[r].pc = "judge" => ENABLED Judge(r)
        /\ (req[r].pc = "create_post" /\ req[r].entry = "app") =>
               ENABLED CreatePostApp(r)

\* both requests judged a window holding a common commit, both were answered
\* yes, and both inserted a post
C26_Witness ==
    \E r, o \in Reqs :
        /\ r # o
        /\ req[r].user_id = req[o].user_id
        /\ req[r].repository = req[o].repository
        /\ req[r].window \cap req[o].window # {}
        /\ req[r].answer = "true" /\ req[o].answer = "true"
        /\ PostsBy(r) # {} /\ PostsBy(o) # {}

\* C27 (as claimed): the window a request hands to the Judge holds every
\* commit the request has inserted, whatever the store held before.
C27_WindowHoldsOwnCommits ==
    \A r \in Reqs : req[r].pc = "judge" => req[r].commit_ids \subseteq req[r].window

\* r stored commits and was answered, its judgment negative or failed,
\* before o arrived with a push of the same user to the same repository
Reconsiders(o, r) ==
    /\ r \in req[o].after
    /\ req[r].entry = "app" /\ req[r].answer \in {"false", "error", "nokey"}
    /\ CommitsBy(r) # {}
    /\ req[o].entry = "app"
    /\ req[o].user_id = req[r].user_id
    /\ req[o].repository = req[r].repository

\* C28: the commits of a request whose judgment was negative or failed stay
\* unattributed, and the window of the next push of that user to that
\* repository holds them (the pair having at most 10 unattributed commits).
C28_Reconsidered ==
    \A o, r \in Reqs : Reconsiders(o, r) =>
        /\ \A i \in CommitsBy(r) : commits[i].post_id = 0
        /\ (req[o].pc \in {"judge", "summarize", "create_post", "attach"}
            /\ Len(commits) <= WindowLimit) =>
               CommitsBy(r) \subseteq req[o].window

\* the next push was judged on a window holding the commits of the first
C28_Witness ==
    \E o, r \in Reqs :
        /\ Reconsiders(o, r)
        /\ req[o].pc = "summarize" /\ req[o].answer = "true"
        /\ CommitsBy(r) \subseteq req[o].window
        /\ req[o].commit_ids \subseteq req[o].window

\* the non-empty messages of the commits of the payload, in payload order
PayloadMessages(r) ==
    LET kept == SelectSeq(req[r].commits, LAMBDA c : c.message # "")
    IN [i \in 1..Len(kept) |-> kept[i].message]

\* C29: the Summarizer is given the non-empty commit messages of the push of
\* the request, in payload order, and no message of another commit of the
\* judged window.
C29_SummarizerInput ==
    \A r \in Reqs : req[r].summary # "-" =>
        req[r].commit_messages = PayloadMessages(r)

\* a push was summarized whose judged window also held the commits of the
\* other request
C29_Witness ==
    \E r, o \in Reqs :
        /\ r # o /\ req[r].entry = "app" /\ req[r].summary = "ok"
        /\ req[r].window \cap CommitsBy(o) # {}
        /\ Len(req[r].commit_messages) = 1 /\ Len(req[r].commits) = MaxCommits

\* how many times r has invoked the operation
Invocations(r, name) ==
    Cardinality({i \in 1..Len(calls[r]) : calls[r][i] = name})

\* C30: a request invokes each collaborator operation at most once, also
\* after it failed, and inserts at most one post.
C30_NoRetries ==
    \A r \in Reqs :
        /\ \A name \in {"profiles.select", "commits.insert", "commits.select",
                        "judge.generate", "summarize.generate", "posts.insert",
                        "commits.update"} : Invocations(r, name) <= 1
        /\ Cardinality(PostsBy(r)) <= 1

\* a request went through every operation once and ended on the failure of
\* the last, while the other ended on a failed insert into posts
C30_Witness ==
    \E r, o \in Reqs :
        /\ Done(r) /\ req[r].resp.status = 500
        /\ calls[r] = <<"verify", "profiles.select", "commits.insert",
                        "commits.select", "judge.generate",
                        "summarize.generate", "posts.insert", "commits.update">>
        /\ Done(o) /\ req[o].resp = HTTPException(500, "Failed to create post")
        /\ Invocations(o, "posts.insert") = 1 /\ PostsBy(o) = {}

\* the steps of the orchestrator in their order: Authenticate, Filter and
\* Extract, Resolve identity, Ingest, Judge (window query, then evaluation),
\* Summarize and Publish (summary, post insert, attach), response
StepOf(pc) ==
    CASE pc = "idle" -> 0
      [] pc = "auth" -> 1
      [] pc = "filter" -> 2
      [] pc = "resolve" -> 3
      [] pc = "ingest" -> 4
      [] pc = "window" -> 5
      [] pc = "judge" -> 6
      [] pc = "summarize" -> 7
      [] pc = "create_post" -> 8
      [] pc = "attach" -> 9
      [] pc = "done" -> 10

\* whatever a request does takes it to a later step, and it has a response
\* exactly when it has ended
Forward ==
    \A r \in Reqs :
        /\ (req'[r] # req[r] \/ calls'[r] # calls[r]) =>
               StepOf(req'[r].pc) > StepOf(req[r].pc)
        /\ Done(r)' <=> req'[r].resp # NoResp

\* C31: a request goes through the steps of the orchestrator in their order
\* and visits none twice; when every collaborator call returns or fails, a
\* request that has arrived ends, with one response that is never replaced.
C31_LinearStateMachine ==
    /\ [][Forward]_vars
    /\ \A r \in Reqs : (req[r].pc # "idle") ~> Done(r)
    /\ \A r \in Reqs : [](Done(r) => [](Done(r)))

\* a request went through every step up to the attach and was answered
C31_Witness ==
    \E r \in Reqs :
        /\ Done(r) /\ req[r].resp.status = 200
        /\ Made(r, "commits.update") /\ Made(r, "judge.generate")

\* C32: the post_id of a commit is written only by the request that
\* inserted the commit, and is the id of the post that request inserted; the
\* commits of a request that made no post are attached by no other request,
\* not even by one that judged them and made a post.
C32_AttachedByOwnRequest ==
    /\ \A i \in 1..Len(commits) : commits[i].post_id # 0 =>
          /\ commits[i].post_id \in 1..Len(posts)
          /\ posts[commits[i].post_id].by = commits[i].by
          /\ i \in req[commits[i].by].updated
    /\ \A r \in Reqs : PostsBy(r) = {} =>
          \A i \in CommitsBy(r) : commits[i].post_id = 0

\* a request made a post after judging commits of the other request, which
\* had ended without a post, and attached its own commits only
C32_Witness ==
    \E r, o \in Reqs :
        /\ r \in req[o].after /\ PostsBy(r) = {} /\ CommitsBy(r) # {}
        /\ Done(o) /\ PostsBy(o) # {}
        /\ CommitsBy(r) \subseteq req[o].window
        /\ req[o].updated = CommitsBy(o) /\ CommitsBy(o) # {}
        /\ \A i \in CommitsBy(r) : commits[i].post_id = 0

\* C33 (as claimed): a request that ends with status 500 has inserted no
\* post; posts exist only for requests answered "Post created successfully".
C33_ServerErrorMeansNoPost ==
    \A r \in Reqs : (Done(r) /\ req[r].resp.status = 500) => PostsBy(r) = {}

\* C34 (as claimed): commits_linked of a "Post created successfully" response
\* is the number of commits whose post_id is the post_id of the response.
C34_CommitsLinkedCount ==
    \A r \in Reqs :
        (Done(r) /\ req[r].entry = "app" /\ req[r].resp.status = 200
         /\ HasField(r, "commits_linked")) =>
            req[r].resp.body.commits_linked =
                Cardinality({i \in 1..Len(commits) :
                                commits[i].post_id = req[r].resp.body.post_id})

\* the request has read the repository of a push that is private, has no
\* private flag, or has no repository object
PrivatePush(r) ==
    /\ req[r].entry = "app" /\ Made(r, "verify")
    /\ req[r].repository \in {"private", "noflag", "norepo"}

\* C35: app.py answers an authenticated push to a private repository, or
\* one without repository object or private flag, with the 200 skip for
\* private repositories, whatever its ref, and makes no store or generation
\* call.
C35_PrivateSkipped ==
    \A r \in Reqs : PrivatePush(r) =>
        /\ Done(r)
        /\ req[r].resp = Ok([message |-> "Skipped - private repository",
                             repository |-> IF req[r].repository = "norepo"
                                            THEN "unknown" ELSE "crax/app"])
        /\ calls[r] = <<"verify">>
        /\ CommitsBy(r) = {} /\ PostsBy(r) = {}

\* a push without private flag to another branch got the skip for private
\* repositories, and one without repository object to main as well
C35_Witness ==
    \E r, o \in Reqs :
        /\ PrivatePush(r) /\ req[r].repository = "noflag"
        /\ req[r].ref = "refs/heads/develop" /\ Done(r)
        /\ PrivatePush(o) /\ req[o].repository = "norepo"
        /\ req[o].ref = "refs/heads/main" /\ Done(o)

\* the request is a POST whose Authorization header is "Bearer " followed
\* by the configured secret
Authorized ==
    /\ probe.request.method = "POST"
    /\ probe.crax_secret_key # ""
    /\ probe.request.authorization = Str(<<"Bearer ", probe.crax_secret_key>>)

\* C36 (as claimed): the LinkedIn function calls the scraper and the store
\* only for an authorized request; every other request, and every request
\* when no secret is configured, ends with 204, 405 or 401 and without them.
C36_LinkedInAuthorization ==
    (verdict # PendingLinkedIn /\ ~Authorized) =>
        /\ verdict.status \in {204, 405, 401}
        /\ ~verdict.scraped /\ ~verdict.updated

\* C37 (as claimed): when a request of the Devpost function has ended, the
\* Chrome driver it started has been quit.
C37_DriverQuit ==
    verdict.pc = "done" => verdict.driver # "running"

====
